---- MODULE Spec2Model ----
(***************************************************************************)
(* Attack detection and incident response engine of the review-fraud       *)
(* workshop application: metrics aggregation over the review store, the    *)
(* attack classifier, the incident ledger (app/services/incident_service), *)
(* the response executor and the detection sweep and incident CRUD         *)
(* endpoints (app/routers/incidents, app/routers/businesses).              *)
(*                                                                         *)
(* Time is counted in whole hours.  Ratings, averages, trends and          *)
(* velocities are exact rationals <<numerator, denominator>> with a        *)
(* positive denominator; round(x, 2) yields a rational over 100.           *)
(* The review store is a bag: a function from review documents (without    *)
(* their random ids) to the number of stored reviews with that content.    *)
(***************************************************************************)
EXTENDS Integers, Sequences, FiniteSets, TLC

\* ------------------------------------------------------------------ bounds
MaxTime == 2
MaxIncidents == 2
MaxReviews == 10
MaxOrganic == 1
MaxRequests == 4

\* ------------------------------------------------------- program constants
MinRecentReviews == 5
HoldWindowHours == 1
TickHours == 2

Businesses == {"B1", "B2"}
HoursSet == {1, 3}
BulkCounts == {4, 5}
OpenStatuses == {"detected", "investigating", "confirmed", "mitigated"}
Statuses == OpenStatuses \cup {"resolved", "false_positive"}
Severities == {"low", "medium", "high", "critical"}
None == "none"
NoTime == -1
NoIncident == 0
AutoDetectedTag == [tag |-> "auto_detected", n |-> 0]
ProtectedTag == [tag |-> "business_protected", n |-> 0]
Workers == {1, 2}

\* ---------------------------------------------------------------- numbers
RLt(a, b) == a[1] * b[2] < b[1] * a[2]

RSub(a, b) == <<a[1] * b[2] - b[1] * a[2], a[2] * b[2]>>

RAbs(a) == IF a[1] < 0 THEN <<0 - a[1], a[2]>> ELSE a

RoundHalfEven(n, d) ==
  LET q == n \div d
      r == n - q * d
  IN  IF 2 * r < d THEN q
      ELSE IF 2 * r > d THEN q + 1
      ELSE IF q % 2 = 0 THEN q ELSE q + 1

Round2(a) == <<RoundHalfEven(100 * a[1], a[2]), 100>>

RECURSIVE SumFn(_)
SumFn(f) ==
  IF DOMAIN f = {} THEN 0
  ELSE LET x == CHOOSE y \in DOMAIN f : TRUE
       IN  f[x] + SumFn([y \in DOMAIN f \ {x} |-> f[y]])

\* ------------------------------------------------------------ review store
Review(b, d, s, sim) ==
  [business_id |-> b, date |-> d, stars |-> s, is_simulated |-> sim,
   status |-> "published", held_at |-> NoTime]

BagSize(B) == SumFn(B)

BagAdd(B, k, n) ==
  IF n = 0 THEN B
  ELSE [x \in DOMAIN B \cup {k} |->
          (IF x \in DOMAIN B THEN B[x] ELSE 0) + (IF x = k THEN n ELSE 0)]

CountWhere(B, S) == SumFn([k \in S |-> B[k]])

StarsWhere(B, S) == SumFn([k \in S |-> B[k] * k.stars])

\* ------------------------------------------------------ metrics aggregator
OverallAggs(revs, bid) ==
  LET P == {k \in DOMAIN revs : k.business_id = bid}
  IN  [total_reviews |-> CountWhere(revs, P),
       sum_stars |-> StarsWhere(revs, P)]

RecentAggs_PublishedOnly(revs, bid, hours, t) ==
  LET P == {k \in DOMAIN revs : /\ k.business_id = bid /\ k.date >= t - hours
                                /\ k.status = "published"}
      Q == {k \in P : k.is_simulated}
  IN  [review_count |-> CountWhere(revs, P),
       sum_stars |-> StarsWhere(revs, P),
       suspicious_count |-> CountWhere(revs, Q)]

RecentAggs(revs, bid, hours, t) ==
  LET P == {k \in DOMAIN revs : k.business_id = bid /\ k.date >= t - hours}
      Q == {k \in P : k.is_simulated}
  IN  [review_count |-> CountWhere(revs, P),
       sum_stars |-> StarsWhere(revs, P),
       suspicious_count |-> CountWhere(revs, Q)]

AvgValue(sum, cnt) == IF cnt = 0 THEN <<0, 1>> ELSE <<sum, cnt>>

Snapshot(total, avg, rcount, ravg, susp, hours) ==
  [total_reviews |-> total,
   average_rating |-> avg,
   recent_review_count |-> rcount,
   recent_average_rating |-> ravg,
   suspicious_count |-> susp,
   rating_trend |-> IF rcount > 0 THEN RSub(ravg, avg) ELSE <<0, 1>>,
   review_velocity |-> IF hours > 0 THEN <<rcount, hours>> ELSE <<0, 1>>]

MakeSnapshot(overall, recent, hours) ==
  Snapshot(overall.total_reviews,
           AvgValue(overall.sum_stars, overall.total_reviews),
           recent.review_count,
           AvgValue(recent.sum_stars, recent.review_count),
           recent.suspicious_count, hours)

\* -------------------------------------------------------- attack classifier
DetectIsUnderAttack_StrictGate(snap) ==
  /\ snap.recent_review_count > MinRecentReviews
  /\ \/ RLt(snap.rating_trend, <<-1, 1>>)
     \/ RLt(<<2, 1>>, snap.review_velocity)
     \/ snap.suspicious_count > 3

DetectIsUnderAttack_NoGate(snap) ==
  \/ RLt(snap.rating_trend, <<-1, 1>>)
  \/ RLt(<<2, 1>>, snap.review_velocity)
  \/ snap.suspicious_count > 3

DetectIsUnderAttack(snap) ==
  /\ snap.recent_review_count >= MinRecentReviews
  /\ \/ RLt(snap.rating_trend, <<-1, 1>>)
     \/ RLt(<<2, 1>>, snap.review_velocity)
     \/ snap.suspicious_count > 3

StatsIsUnderAttack(snap) ==
  /\ snap.recent_review_count >= MinRecentReviews
  /\ \/ RLt(snap.rating_trend, <<-1, 1>>)
     \/ RLt(<<2, 1>>, snap.review_velocity)
     \/ snap.suspicious_count > 3

BusinessStats(bid, snap, attack) ==
  [business_id |-> bid,
   total_reviews |-> snap.total_reviews,
   average_rating |-> Round2(snap.average_rating),
   recent_review_count |-> snap.recent_review_count,
   recent_average_rating |-> Round2(snap.recent_average_rating),
   rating_trend |-> Round2(snap.rating_trend),
   review_velocity |-> Round2(snap.review_velocity),
   suspicious_review_count |-> snap.suspicious_count,
   is_under_attack |-> attack]

determine_severity_HighFirst(stats) ==
  IF \/ RLt(<<3, 1>>, stats.review_velocity)
     \/ stats.recent_review_count > 10
     \/ RLt(stats.rating_trend, <<-2, 1>>)
    THEN "high"
  ELSE IF RLt(<<5, 1>>, stats.review_velocity) \/ stats.recent_review_count > 20
    THEN "critical"
  ELSE IF stats.recent_review_count >= 5 \/ stats.suspicious_review_count > 3
    THEN "medium"
  ELSE "low"

determine_severity_SlowHigh(stats) ==
  IF RLt(<<5, 1>>, stats.review_velocity) \/ stats.recent_review_count > 20
    THEN "critical"
  ELSE IF \/ RLt(stats.review_velocity, <<3, 1>>)
          \/ stats.recent_review_count > 10
          \/ RLt(stats.rating_trend, <<-2, 1>>)
    THEN "high"
  ELSE IF stats.recent_review_count >= 5 \/ stats.suspicious_review_count > 3
    THEN "medium"
  ELSE "low"

determine_severity_NoMedium(stats) ==
  IF RLt(<<5, 1>>, stats.review_velocity) \/ stats.recent_review_count > 20
    THEN "critical"
  ELSE IF \/ RLt(<<3, 1>>, stats.review_velocity)
          \/ stats.recent_review_count > 10
          \/ RLt(stats.rating_trend, <<-2, 1>>)
    THEN "high"
  ELSE "low"

determine_severity(stats) ==
  IF RLt(<<5, 1>>, stats.review_velocity) \/ stats.recent_review_count > 20
    THEN "critical"
  ELSE IF \/ RLt(<<3, 1>>, stats.review_velocity)
          \/ stats.recent_review_count > 10
          \/ RLt(stats.rating_trend, <<-2, 1>>)
    THEN "high"
  ELSE IF stats.recent_review_count >= 5 \/ stats.suspicious_review_count > 3
    THEN "medium"
  ELSE "low"

\* ---------------------------------------------------------- incident ledger
\* The store the handlers work on is threaded through the operators below as
\* a record st = [now, incidents, reviews, businesses, nextId, indexExists];
\* env is the set of environment outcomes of one evaluation (store calls
\* that fail, index auto-creation switched off, order of equal sort keys).
Metrics(rc, ua, ar, rd, rpm) ==
  [review_count |-> rc, unique_attackers |-> ua, average_rating |-> ar,
   rating_drop |-> rd, reviews_per_minute |-> rpm]

DefaultMetrics == Metrics(0, 0, <<0, 100>>, <<0, 100>>, <<0, 100>>)

RatingDrop(stats) ==
  IF RLt(stats.rating_trend, <<0, 1>>) THEN RAbs(stats.rating_trend) ELSE <<0, 100>>

ReviewsPerMinute(stats) ==
  Round2(<<stats.review_velocity[1], stats.review_velocity[2] * 60>>)

Incident(id, bid, sev, t, desc, metrics, actions) ==
  [incident_id |-> id, business_id |-> bid, status |-> "detected",
   severity |-> sev, detected_at |-> t, resolved_at |-> NoTime,
   resolution |-> None, description |-> desc, metrics |-> metrics,
   response_actions |-> actions, response_executed_at |-> NoTime]

OpenIncidentsOf(incs, bid) ==
  {i \in DOMAIN incs : incs[i].business_id = bid /\ incs[i].status \in OpenStatuses}

MaxOf(S) == CHOOSE x \in S : \A y \in S : y <= x

MinOf(S) == CHOOSE x \in S : \A y \in S : x <= y

check_existing_open_incident_AnyStatus(st, bid, env, failKey) ==
  IF ~st.indexExists THEN [raised |-> FALSE, id |-> NoIncident]
  ELSE IF failKey \in env THEN [raised |-> TRUE, id |-> NoIncident]
  ELSE LET open == {i \in DOMAIN st.incidents : st.incidents[i].business_id = bid}
           latest == MaxOf({st.incidents[i].detected_at : i \in open})
           hits == {i \in open : st.incidents[i].detected_at = latest}
       IN  IF open = {} THEN [raised |-> FALSE, id |-> NoIncident]
           ELSE [raised |-> FALSE,
                 id |-> IF "tie_hi" \in env THEN MaxOf(hits) ELSE MinOf(hits)]

check_existing_open_incident_NoMitigated(st, bid, env, failKey) ==
  IF ~st.indexExists THEN [raised |-> FALSE, id |-> NoIncident]
  ELSE IF failKey \in env THEN [raised |-> TRUE, id |-> NoIncident]
  ELSE LET open == {i \in OpenIncidentsOf(st.incidents, bid) :
                      st.incidents[i].status # "mitigated"}
           latest == MaxOf({st.incidents[i].detected_at : i \in open})
           hits == {i \in open : st.incidents[i].detected_at = latest}
       IN  IF open = {} THEN [raised |-> FALSE, id |-> NoIncident]
           ELSE [raised |-> FALSE,
                 id |-> IF "tie_hi" \in env THEN MaxOf(hits) ELSE MinOf(hits)]

check_existing_open_incident(st, bid, env, failKey) ==
  IF ~st.indexExists THEN [raised |-> FALSE, id |-> NoIncident]
  ELSE IF failKey \in env THEN [raised |-> TRUE, id |-> NoIncident]
  ELSE LET open == OpenIncidentsOf(st.incidents, bid)
           latest == MaxOf({st.incidents[i].detected_at : i \in open})
           hits == {i \in open : st.incidents[i].detected_at = latest}
       IN  IF open = {} THEN [raised |-> FALSE, id |-> NoIncident]
           ELSE [raised |-> FALSE,
                 id |-> IF "tie_hi" \in env THEN MaxOf(hits) ELSE MinOf(hits)]

update_incident_metrics_Redetect(st, id, stats, env) ==
  IF "metrics_update" \in env \/ id \notin DOMAIN st.incidents THEN st
  ELSE [st EXCEPT
          !.incidents[id].metrics =
             [@ EXCEPT !.review_count = stats.recent_review_count,
                       !.average_rating = stats.recent_average_rating,
                       !.rating_drop = RatingDrop(stats),
                       !.reviews_per_minute = ReviewsPerMinute(stats)],
          !.incidents[id].detected_at = st.now]

update_incident_metrics_Reopen(st, id, stats, env) ==
  IF "metrics_update" \in env \/ id \notin DOMAIN st.incidents THEN st
  ELSE [st EXCEPT
          !.incidents[id].metrics =
             [@ EXCEPT !.review_count = stats.recent_review_count,
                       !.average_rating = stats.recent_average_rating,
                       !.rating_drop = RatingDrop(stats),
                       !.reviews_per_minute = ReviewsPerMinute(stats)],
          !.incidents[id].status = "detected"]

update_incident_metrics_Reclassify(st, id, stats, env) ==
  IF "metrics_update" \in env \/ id \notin DOMAIN st.incidents THEN st
  ELSE [st EXCEPT
          !.incidents[id].metrics =
             [@ EXCEPT !.review_count = stats.recent_review_count,
                       !.average_rating = stats.recent_average_rating,
                       !.rating_drop = RatingDrop(stats),
                       !.reviews_per_minute = ReviewsPerMinute(stats)],
          !.incidents[id].severity = determine_severity(stats)]

update_incident_metrics(st, id, stats, env) ==
  IF "metrics_update" \in env \/ id \notin DOMAIN st.incidents THEN st
  ELSE [st EXCEPT
          !.incidents[id].metrics =
             [@ EXCEPT !.review_count = stats.recent_review_count,
                       !.average_rating = stats.recent_average_rating,
                       !.rating_drop = RatingDrop(stats),
                       !.reviews_per_minute = ReviewsPerMinute(stats)]]

PutIncident(st, inc) ==
  [st EXCEPT
     !.incidents = [i \in DOMAIN st.incidents \cup {inc.incident_id} |->
                      IF i = inc.incident_id THEN inc ELSE st.incidents[i]],
     !.indexExists = TRUE]

ensure_incidents_index(st, env) ==
  IF "ensure_fail" \in env THEN st ELSE [st EXCEPT !.indexExists = TRUE]

IndexNotFound(st, env) == ~st.indexExists /\ "no_auto_create" \in env

\* retried tells whether the write was attempted a second time.
IndexIncident_NoRetry(st, inc, env) ==
  IF "incident_index" \in env THEN [st |-> st, raised |-> TRUE, retried |-> FALSE]
  ELSE IF IndexNotFound(st, env)
    THEN [st |-> ensure_incidents_index(st, env), raised |-> TRUE, retried |-> FALSE]
  ELSE [st |-> PutIncident(st, inc), raised |-> FALSE, retried |-> FALSE]

IndexIncident(st, inc, env) ==
  IF "incident_index" \in env THEN [st |-> st, raised |-> TRUE, retried |-> FALSE]
  ELSE IF IndexNotFound(st, env)
    THEN LET st1 == ensure_incidents_index(st, env)
         IN  IF "retry_index" \in env \/ IndexNotFound(st1, env)
               THEN [st |-> st1, raised |-> TRUE, retried |-> TRUE]
               ELSE [st |-> PutIncident(st1, inc), raised |-> FALSE, retried |-> TRUE]
  ELSE [st |-> PutIncident(st, inc), raised |-> FALSE, retried |-> FALSE]

NewIncident(id, stats, auto_created, t) ==
  Incident(id, stats.business_id, determine_severity(stats), t,
           IF auto_created THEN "auto" ELSE "plain",
           Metrics(stats.recent_review_count, stats.suspicious_review_count,
                   stats.recent_average_rating, RatingDrop(stats),
                   ReviewsPerMinute(stats)),
           IF auto_created THEN <<AutoDetectedTag>> ELSE <<>>)

create_incident_from_attack(st, stats, auto_created, env) ==
  LET existing == check_existing_open_incident(st, stats.business_id, env,
                                               "incident_search")
  IN  IF existing.raised
        THEN [st |-> st, incident |-> NoIncident, raised |-> TRUE, called |-> "error",
              retried |-> FALSE]
      ELSE IF existing.id # NoIncident
        THEN [st |-> update_incident_metrics(st, existing.id, stats, env),
              incident |-> NoIncident, raised |-> FALSE, called |-> "existing",
              retried |-> FALSE]
      ELSE
        LET id == st.nextId
            inc == NewIncident(id, stats, auto_created, st.now)
            w == IndexIncident([st EXCEPT !.nextId = id + 1], inc, env)
        IN  IF w.raised
              THEN [st |-> w.st, incident |-> NoIncident, raised |-> TRUE,
                    called |-> "error", retried |-> w.retried]
              ELSE [st |-> w.st, incident |-> id, raised |-> FALSE, called |-> "new",
                    retried |-> w.retried]

create_incident_if_attack_detected(st, stats, env) ==
  IF ~stats.is_under_attack
    THEN [st |-> st, incident |-> NoIncident, raised |-> FALSE, called |-> "skipped",
          retried |-> FALSE]
    ELSE create_incident_from_attack(st, stats, TRUE, env)

\* -------------------------------------------------------- response executor
protect_business(st, bid, env) ==
  IF "protect" \in env THEN [st |-> st, ok |-> FALSE]
  ELSE [st |-> [st EXCEPT !.businesses[bid] =
                  [rating_protected |-> TRUE,
                   protection_reason |-> "review_fraud_detected",
                   protected_since |-> st.now]],
        ok |-> TRUE]

HoldQuery(k, bid, hours, t) ==
  /\ k.business_id = bid
  /\ k.date >= t - hours
  /\ k.stars <= 2

HoldScript(k, t) == [k EXCEPT !.status = "held", !.held_at = t]

UpdateByQuery(revs, bid, hours, t) ==
  LET img(k) == IF HoldQuery(k, bid, hours, t) THEN HoldScript(k, t) ELSE k
      dom == {img(k) : k \in DOMAIN revs}
  IN  [k2 \in dom |-> SumFn([k \in {x \in DOMAIN revs : img(x) = k2} |-> revs[k]])]

hold_suspicious_reviews(st, bid, hours, env) ==
  IF "hold" \in env THEN [st |-> st, updated |-> 0]
  ELSE LET Q == {k \in DOMAIN st.reviews : HoldQuery(k, bid, hours, st.now)}
       IN  [st |-> [st EXCEPT !.reviews = UpdateByQuery(@, bid, hours, st.now)],
            updated |-> CountWhere(st.reviews, Q)]

HeldTag(n) == [tag |-> "held_reviews", n |-> n]

ActionsTaken(protected, held) ==
  (IF protected THEN <<ProtectedTag>> ELSE <<>>)
  \o (IF held > 0 THEN <<HeldTag(held)>> ELSE <<>>)

RecordActions(st, incident_id, actions_taken, env) ==
  IF "actions_update" \in env \/ incident_id \notin DOMAIN st.incidents THEN st
  ELSE [st EXCEPT !.incidents[incident_id].response_actions = actions_taken,
                  !.incidents[incident_id].response_executed_at = st.now]

ResponseResult(protected, held) ==
  [business_protected |-> protected, reviews_held |-> held,
   actions |-> ActionsTaken(protected, held)]

execute_response_actions_StopOnFailure(st, bid, incident_id, env) ==
  LET p == protect_business(st, bid, env)
      h == IF p.ok THEN hold_suspicious_reviews(p.st, bid, HoldWindowHours, env)
           ELSE [st |-> p.st, updated |-> 0]
  IN  [st |-> RecordActions(h.st, incident_id, ActionsTaken(p.ok, h.updated), env),
       result |-> ResponseResult(p.ok, h.updated)]

execute_response_actions(st, bid, incident_id, env) ==
  LET p == protect_business(st, bid, env)
      h == hold_suspicious_reviews(p.st, bid, HoldWindowHours, env)
  IN  [st |-> RecordActions(h.st, incident_id, ActionsTaken(p.ok, h.updated), env),
       result |-> ResponseResult(p.ok, h.updated)]

\* ------------------------------------------------------------ sweep driver
\* acc = [st, detected, created, ledger, overflow]: the store, the two lists
\* of the sweep report, the results of the ledger calls made so far, and
\* whether an incident id beyond MaxIncidents was needed.
DetectedEntry(bid, snap) ==
  [business_id |-> bid, review_count |-> snap.recent_review_count,
   response |-> <<>>, existing_incident_id |-> NoIncident]

CreatedEntry(inc, result) ==
  [incident_id |-> inc.incident_id, business_id |-> inc.business_id,
   severity |-> inc.severity, response |-> <<result>>]

LedgerEntry(bid, r) ==
  [business_id |-> bid, result |-> r.called, incident |-> r.incident,
   retried |-> r.retried]

SetLast(seq, e) == [seq EXCEPT ![Len(seq)] = e]

EvalBusiness_NewOnly(acc, bid, hours, env) ==
  IF {"business_search", "overall_search", "recent_search"} \cap env # {} THEN acc
  ELSE
    LET st == acc.st
        snap == MakeSnapshot(OverallAggs(st.reviews, bid),
                             RecentAggs(st.reviews, bid, hours, st.now), hours)
    IN
    IF ~DetectIsUnderAttack(snap) THEN acc
    ELSE
      LET stats == BusinessStats(bid, snap, TRUE)
          entry == DetectedEntry(bid, snap)
          detected == Append(acc.detected, entry)
          r == create_incident_from_attack(st, stats, TRUE, env)
          acc1 == [acc EXCEPT !.st = r.st, !.detected = detected,
                              !.ledger = Append(@, LedgerEntry(bid, r)),
                              !.overflow = @ \/ r.st.nextId > MaxIncidents + 1]
      IN
      IF r.raised THEN acc1
      ELSE IF r.incident # NoIncident THEN
        LET x == execute_response_actions(r.st, bid, r.incident, env)
        IN  [acc1 EXCEPT !.st = x.st,
                         !.created = Append(@, CreatedEntry(r.st.incidents[r.incident],
                                                             x.result))]
      ELSE acc1

EvalBusiness(acc, bid, hours, env) ==
  IF {"business_search", "overall_search", "recent_search"} \cap env # {} THEN acc
  ELSE
    LET st == acc.st
        snap == MakeSnapshot(OverallAggs(st.reviews, bid),
                             RecentAggs(st.reviews, bid, hours, st.now), hours)
    IN
    IF ~DetectIsUnderAttack(snap) THEN acc
    ELSE
      LET stats == BusinessStats(bid, snap, TRUE)
          entry == DetectedEntry(bid, snap)
          detected == Append(acc.detected, entry)
          r == create_incident_from_attack(st, stats, TRUE, env)
          acc1 == [acc EXCEPT !.st = r.st, !.detected = detected,
                              !.ledger = Append(@, LedgerEntry(bid, r)),
                              !.overflow = @ \/ r.st.nextId > MaxIncidents + 1]
      IN
      IF r.raised THEN acc1
      ELSE IF r.incident # NoIncident THEN
        LET x == execute_response_actions(r.st, bid, r.incident, env)
        IN  [acc1 EXCEPT !.st = x.st,
                         !.created = Append(@, CreatedEntry(r.st.incidents[r.incident],
                                                             x.result))]
      ELSE
        LET existing == check_existing_open_incident(r.st, bid, env, "incident_search2")
        IN  IF existing.raised \/ existing.id = NoIncident THEN acc1
            ELSE
              LET x == execute_response_actions(r.st, bid, existing.id, env)
              IN  [acc1 EXCEPT
                     !.st = x.st,
                     !.detected = SetLast(detected,
                                    [entry EXCEPT !.response = <<x.result>>,
                                                  !.existing_incident_id = existing.id])]

RECURSIVE Sweep(_, _, _, _)

Sweep_AbortOnFault(acc, cands, hours, plan) ==
  IF cands = <<>> THEN acc
  ELSE LET bid == Head(cands)
           acc1 == EvalBusiness(acc, bid, hours, plan[bid])
       IN  IF plan[bid] \ {"tie_hi"} # {} THEN acc1
           ELSE Sweep(acc1, Tail(cands), hours, plan)

Sweep(acc, cands, hours, plan) ==
  IF cands = <<>> THEN acc
  ELSE LET bid == Head(cands)
       IN  Sweep(EvalBusiness(acc, bid, hours, plan[bid]), Tail(cands), hours, plan)

RecentCount(revs, bid, hours, t) == RecentAggs(revs, bid, hours, t).review_count

KeyOrder(b) == IF b = "B1" THEN 1 ELSE 2

BucketBefore(revs, hours, t, a, b) ==
  LET ca == RecentCount(revs, a, hours, t)
      cb == RecentCount(revs, b, hours, t)
  IN  ca > cb \/ (ca = cb /\ KeyOrder(a) < KeyOrder(b))

RECURSIVE Buckets(_, _, _, _)
Buckets(revs, hours, t, S) ==
  IF S = {} THEN <<>>
  ELSE LET first == CHOOSE a \in S : \A b \in S \ {a} : BucketBefore(revs, hours, t, a, b)
       IN  <<first>> \o Buckets(revs, hours, t, S \ {first})

BusinessesToCheck(st, target, hours) ==
  IF target # None THEN <<target>>
  ELSE Buckets(st.reviews, hours, st.now,
               {b \in Businesses : RecentCount(st.reviews, b, hours, st.now) > 0})

Faults(env) == env \ {"tie_hi"}

SweepReport_CountsReaffirmed(target, hours, plan, cands, acc) ==
  [op |-> "detect", http |-> 200, target |-> target, hours |-> hours,
   at |-> acc.st.now, faults |-> [b \in Businesses |-> Faults(plan[b])],
   businesses_checked |-> Len(cands),
   attacks_detected |-> Len(acc.detected),
   incidents_created |-> Len(acc.detected),
   detected_attacks |-> acc.detected,
   created_incidents |-> acc.created,
   ledger |-> acc.ledger]

SweepReport(target, hours, plan, cands, acc) ==
  [op |-> "detect", http |-> 200, target |-> target, hours |-> hours,
   at |-> acc.st.now, faults |-> [b \in Businesses |-> Faults(plan[b])],
   businesses_checked |-> Len(cands),
   attacks_detected |-> Len(acc.detected),
   incidents_created |-> Len(acc.created),
   detected_attacks |-> acc.detected,
   created_incidents |-> acc.created,
   ledger |-> acc.ledger]

\* -------------------------------------------------------------------- state
VARIABLES now, incidents, reviews, businesses, nextId, indexExists, lastOp, workers,
          served, streaming

store == <<now, incidents, reviews, businesses, nextId, indexExists>>

vars ==
  <<now, incidents, reviews, businesses, nextId, indexExists, lastOp, workers, served,
    streaming>>

\* One more request is accepted; served counts the requests of a run.
Serve == served < MaxRequests /\ served' = served + 1

Store ==
  [now |-> now, incidents |-> incidents, reviews |-> reviews,
   businesses |-> businesses, nextId |-> nextId, indexExists |-> indexExists]

Commit(st) ==
  /\ now' = st.now
  /\ incidents' = st.incidents
  /\ reviews' = st.reviews
  /\ businesses' = st.businesses
  /\ nextId' = st.nextId
  /\ indexExists' = st.indexExists

Unprotected ==
  [rating_protected |-> FALSE, protection_reason |-> None, protected_since |-> NoTime]

\* A request being served step by step: pc is the store call it makes next,
\* the other fields are the handler's local variables.
Idle ==
  [pc |-> "idle", kind |-> None, bid |-> None, hours |-> 0,
   overall |-> [total_reviews |-> 0, sum_stars |-> 0],
   stats |-> None, attack |-> FALSE, entry |-> None, isNew |-> FALSE,
   incident |-> NoIncident, doc |-> None, protected |-> FALSE, held |-> 0,
   update |-> None]

\* The module-level streaming state of app/routers/streaming, the background
\* tasks created so far (a task's id is its position) and the start and stop
\* requests being served: pc is the await a handler or a task is suspended at.
NoTask == 0

StreamIdle == [pc |-> "idle", bid |-> None, batch |-> 0, awaiting |-> NoTask]

StreamingInit ==
  [is_running |-> FALSE, task |-> NoTask, target_business_id |-> None,
   reviews_generated |-> 0, batch_size |-> 1, tasks |-> <<>>,
   handlers |-> [h \in Workers |-> StreamIdle]]

Init ==
  /\ streaming = StreamingInit
  /\ now = 0
  /\ incidents = <<>>
  /\ reviews = <<>>
  /\ businesses = [b \in Businesses |-> Unprotected]
  /\ nextId = 1
  /\ indexExists \in BOOLEAN
  /\ lastOp = [op |-> "init"]
  /\ workers = [w \in Workers |-> Idle]
  /\ served = 0

\* ------------------------------------------------------ environment choices
NoFail == {}

EvalEnvs ==
  {NoFail, {"business_search"}, {"overall_search"}, {"recent_search"},
   {"incident_search"}, {"incident_search2"}, {"metrics_update"},
   {"incident_index"}, {"no_auto_create"}, {"no_auto_create", "ensure_fail"},
   {"no_auto_create", "retry_index"}, {"protect"}, {"hold"},
   {"actions_update"}, {"tie_hi"}}

SweepPlans ==
  {[b \in Businesses |-> IF b = f THEN e ELSE NoFail] : f \in Businesses, e \in EvalEnvs}

\* --------------------------------------------------------- review producers
create_review(bid, stars, sim) ==
  /\ Serve
  /\ BagSize(reviews) < MaxOrganic
  /\ reviews' = BagAdd(reviews, Review(bid, now, stars, sim), 1)
  /\ lastOp' = [op |-> "create_review"]
  /\ UNCHANGED <<now, incidents, businesses, nextId, indexExists, workers, streaming>>

bulk_attack(bid, count, ones) ==
  /\ Serve
  /\ BagSize(reviews) + count <= MaxReviews
  /\ reviews' = BagAdd(BagAdd(reviews, Review(bid, now, 1, TRUE), ones),
                       Review(bid, now, 2, TRUE), count - ones)
  /\ lastOp' = [op |-> "bulk_attack"]
  /\ UNCHANGED <<now, incidents, businesses, nextId, indexExists, workers, streaming>>

Tick ==
  /\ now + TickHours <= MaxTime
  /\ now' = now + TickHours
  /\ UNCHANGED <<incidents, reviews, businesses, nextId, indexExists, workers, served,
                 lastOp, streaming>>

\* ------------------------------------------------------ detection endpoints
detect_attacks(target, hours, plan, searchFails) ==
  /\ Serve
  /\ UNCHANGED <<workers, streaming>>
  /\ IF target = None /\ searchFails
    THEN /\ lastOp' = [op |-> "detect", http |-> 500, target |-> target]
         /\ UNCHANGED store
    ELSE LET cands == BusinessesToCheck(Store, target, hours)
             acc0 == [st |-> Store, detected |-> <<>>, created |-> <<>>,
                      ledger |-> <<>>, overflow |-> FALSE]
             acc == Sweep(acc0, cands, hours, plan)
         IN  /\ ~acc.overflow
             /\ Commit(acc.st)
             /\ lastOp' = SweepReport(target, hours, plan, cands, acc)

get_business_stats(bid, hours, env) ==
  /\ Serve
  /\ UNCHANGED <<workers, streaming>>
  /\ IF {"business_search", "overall_search", "recent_search"} \cap env # {}
    THEN /\ lastOp' = [op |-> "stats", http |-> 500]
         /\ UNCHANGED store
    ELSE LET snap == MakeSnapshot(OverallAggs(reviews, bid),
                                  RecentAggs(reviews, bid, hours, now), hours)
             stats == BusinessStats(bid, snap, StatsIsUnderAttack(snap))
             r == create_incident_if_attack_detected(Store, stats, env)
         IN  /\ r.st.nextId <= MaxIncidents + 1
             /\ Commit(r.st)
             /\ lastOp' = [op |-> "stats", http |-> 200, hours |-> hours,
                           faults |-> Faults(env), stats |-> stats,
                           ledger |-> IF stats.is_under_attack
                                        THEN <<LedgerEntry(bid, r)>> ELSE <<>>]

\* ------------------------------------------------------------ incident CRUD
get_incident(st, id, env) ==
  IF "incident_get" \in env \/ ~st.indexExists THEN [http |-> 500]
  ELSE IF id \notin DOMAIN st.incidents THEN [http |-> 404]
  ELSE [http |-> 200, incident |-> st.incidents[id]]

create_incident(bid, sev, env) ==
  /\ Serve
  /\ UNCHANGED <<workers, streaming>>
  /\ IF "incident_index" \in env \/ IndexNotFound(Store, env)
       THEN /\ lastOp' = [op |-> "create_incident", http |-> 500]
            /\ UNCHANGED store
       ELSE LET inc == Incident(nextId, bid, sev, now, "manual", DefaultMetrics, <<>>)
            IN  /\ nextId <= MaxIncidents
                /\ Commit(PutIncident([Store EXCEPT !.nextId = nextId + 1], inc))
                /\ lastOp' = [op |-> "create_incident", http |-> 200]

ApplyUpdate_Redetect(inc, update, t) ==
  LET a == IF update.status # None
             THEN [inc EXCEPT !.status = update.status,
                              !.detected_at = IF update.status = "detected" THEN t ELSE @]
             ELSE inc
      b == IF update.severity # None THEN [a EXCEPT !.severity = update.severity] ELSE a
      c == IF update.description # None
             THEN [b EXCEPT !.description = update.description] ELSE b
      d == IF update.response_actions # <<>>
             THEN [c EXCEPT !.response_actions = update.response_actions[1]] ELSE c
  IN  IF update.status = "resolved" THEN [d EXCEPT !.resolved_at = t] ELSE d

ApplyUpdate(inc, update, t) ==
  LET a == IF update.status # None THEN [inc EXCEPT !.status = update.status] ELSE inc
      b == IF update.severity # None THEN [a EXCEPT !.severity = update.severity] ELSE a
      c == IF update.description # None
             THEN [b EXCEPT !.description = update.description] ELSE b
      d == IF update.response_actions # <<>>
             THEN [c EXCEPT !.response_actions = update.response_actions[1]] ELSE c
  IN  IF update.status = "resolved" THEN [d EXCEPT !.resolved_at = t] ELSE d

ModelDump(stored, doc) ==
  [stored EXCEPT !.status = doc.status, !.severity = doc.severity,
                 !.detected_at = doc.detected_at, !.resolved_at = doc.resolved_at,
                 !.resolution = doc.resolution, !.description = doc.description,
                 !.metrics = doc.metrics, !.response_actions = doc.response_actions]

update_incident(id, update, env) ==
  LET g == get_incident(Store, id, env)
  IN  /\ Serve
  /\ UNCHANGED <<workers, streaming>>
      /\ IF g.http # 200
           THEN /\ lastOp' = [op |-> "patch", http |-> g.http, incident_id |-> id]
                /\ UNCHANGED store
         ELSE IF "incident_update" \in env
           THEN /\ lastOp' = [op |-> "patch", http |-> 500, incident_id |-> id]
                /\ UNCHANGED store
         ELSE LET doc == ApplyUpdate(g.incident, update, now)
              IN  /\ incidents' = [incidents EXCEPT ![id] = ModelDump(@, doc)]
                  /\ lastOp' = [op |-> "patch", http |-> 200, incident_id |-> id]
                  /\ UNCHANGED <<now, reviews, businesses, nextId, indexExists>>

resolve_incident(id, resolution, env) ==
  LET g == get_incident(Store, id, env)
  IN  /\ Serve
  /\ UNCHANGED <<workers, streaming>>
      /\ IF g.http # 200
           THEN /\ lastOp' = [op |-> "resolve", http |-> g.http, incident_id |-> id]
                /\ UNCHANGED store
         ELSE IF "incident_update" \in env
           THEN /\ lastOp' = [op |-> "resolve", http |-> 500, incident_id |-> id]
                /\ UNCHANGED store
         ELSE /\ incidents' = [incidents EXCEPT ![id].status = "resolved",
                                                ![id].resolved_at = now,
                                                ![id].resolution = resolution]
              /\ lastOp' = [op |-> "resolve", http |-> 200, incident_id |-> id]
              /\ UNCHANGED <<now, reviews, businesses, nextId, indexExists>>

delete_incident(id, env) ==
  /\ Serve
  /\ UNCHANGED <<workers, streaming>>
  /\ IF "incident_delete" \in env \/ ~indexExists \/ id \notin DOMAIN incidents
       THEN /\ lastOp' = [op |-> "delete", http |-> 500]
            /\ UNCHANGED store
       ELSE /\ incidents' = [i \in DOMAIN incidents \ {id} |-> incidents[i]]
            /\ lastOp' = [op |-> "delete", http |-> 200]
            /\ UNCHANGED <<now, reviews, businesses, nextId, indexExists>>

\* ------------------------------------------------------------ request inputs
IncidentIds == 1..MaxIncidents

Update(status, severity, description, actions) ==
  [status |-> status, severity |-> severity, description |-> description,
   response_actions |-> actions]

PatchInputs ==
  {Update(s, None, None, <<>>) : s \in {"detected", "mitigated", "resolved", "false_positive"}}
  \cup {Update(None, "low", "edited", <<>>)}

Resolutions == {"confirmed_attack"}

ReviewInputs == {<<1, FALSE>>, <<3, TRUE>>}

BulkOnes(c) == {c - 1}

TieEnvs == {NoFail, {"tie_hi"}}

PlanFor(f, e) == [b \in Businesses |-> IF b = f THEN e ELSE NoFail]

\* -------------------------------------------------------------- specification
\* Requests are served one at a time and no store call fails.
ReviewStep == \E b \in Businesses, r \in ReviewInputs : create_review(b, r[1], r[2])

AttackStep ==
  \E b \in Businesses, c \in BulkCounts : \E ones \in BulkOnes(c) : bulk_attack(b, c, ones)

SweepStep ==
  \E t \in Businesses \cup {None}, h \in HoursSet, e \in TieEnvs :
     detect_attacks(t, h, [b \in Businesses |-> e], FALSE)

StatsStep ==
  \E b \in Businesses, h \in HoursSet, e \in TieEnvs : get_business_stats(b, h, e)

PostStep == \E b \in Businesses : create_incident(b, "high", NoFail)

PatchStep == \E i \in IncidentIds, u \in PatchInputs : update_incident(i, u, NoFail)

ResolveStep == \E i \in IncidentIds, r \in Resolutions : resolve_incident(i, r, NoFail)

DeleteStep == \E i \in IncidentIds : delete_incident(i, NoFail)

Next ==
  \/ ReviewStep
  \/ AttackStep
  \/ Tick
  \/ SweepStep
  \/ StatsStep
  \/ PostStep
  \/ PatchStep
  \/ ResolveStep
  \/ DeleteStep

Spec == Init /\ [][Next]_vars

\* Requests are served one at a time and the store calls of an evaluation may
\* fail: one environment outcome per sweep, for one of the businesses.
FaultyHours == {1}

FaultySweepOne ==
  \E t \in Businesses, h \in FaultyHours, e \in EvalEnvs :
     detect_attacks(t, h, PlanFor(t, e), FALSE)

FaultySweepAll ==
  \E h \in FaultyHours, f \in Businesses, e \in EvalEnvs, sf \in BOOLEAN :
     detect_attacks(None, h, PlanFor(f, e), sf)

FaultyStats ==
  \E b \in Businesses, h \in FaultyHours, e \in EvalEnvs : get_business_stats(b, h, e)

NextFail ==
  \/ AttackStep
  \/ FaultySweepOne
  \/ FaultySweepAll
  \/ FaultyStats
  \/ ResolveStep

SpecFail == Init /\ [][NextFail]_vars

\* ------------------------------------------------- overlapping evaluations
\* detect_attacks for one business and get_business_stats, one store call
\* (one await) per step, so that the calls of two requests interleave.
SetWorker(w, rec) == workers' = [workers EXCEPT ![w] = rec]

Finish(w, op) ==
  /\ SetWorker(w, Idle)
  /\ lastOp' = op

EvalLedger(rec) ==
  IF ~rec.attack THEN <<>>
  ELSE <<[business_id |-> rec.bid,
          result |-> IF rec.isNew THEN "new" ELSE "existing",
          incident |-> IF rec.isNew THEN rec.incident ELSE NoIncident,
          retried |-> FALSE]>>

EvalReport(w, rec) ==
  IF rec.kind = "stats"
    THEN [op |-> "stats", http |-> 200, hours |-> rec.hours, faults |-> NoFail,
          stats |-> rec.stats,
          ledger |-> EvalLedger(rec)]
    ELSE [op |-> "detect", http |-> 200, target |-> rec.bid, hours |-> rec.hours,
          at |-> now, faults |-> [b \in Businesses |-> NoFail],
          businesses_checked |-> 1,
          attacks_detected |-> IF ~rec.attack THEN 0 ELSE 1,
          incidents_created |-> IF rec.isNew THEN 1 ELSE 0,
          detected_attacks |-> IF ~rec.attack THEN <<>> ELSE <<rec.entry>>,
          created_incidents |->
             IF rec.isNew
               THEN <<CreatedEntry(rec.doc, ResponseResult(rec.protected, rec.held))>>
               ELSE <<>>,
          ledger |-> EvalLedger(rec)]

StartEval(w, kind, bid, hours) ==
  /\ workers[w].pc = "idle"
  /\ Serve
  /\ SetWorker(w, [Idle EXCEPT !.pc = "overall", !.kind = kind, !.bid = bid,
                               !.hours = hours])
  /\ UNCHANGED <<store, lastOp, streaming>>

OverallQuery(w) ==
  LET rec == workers[w]
  IN  /\ rec.pc = "overall"
      /\ SetWorker(w, [rec EXCEPT !.pc = "recent",
                                  !.overall = OverallAggs(reviews, rec.bid)])
      /\ UNCHANGED <<store, lastOp, served, streaming>>

RecentQuery(w) ==
  LET rec == workers[w]
      snap == MakeSnapshot(rec.overall, RecentAggs(reviews, rec.bid, rec.hours, now),
                           rec.hours)
      attack == IF rec.kind = "stats" THEN StatsIsUnderAttack(snap)
                ELSE DetectIsUnderAttack(snap)
      rec1 == [rec EXCEPT !.stats = BusinessStats(rec.bid, snap, attack)]
  IN  /\ rec.pc = "recent"
      /\ IF attack
           THEN /\ SetWorker(w, [rec1 EXCEPT !.pc = "lookup", !.attack = TRUE,
                                             !.entry = DetectedEntry(rec.bid, snap)])
                /\ UNCHANGED lastOp
           ELSE Finish(w, EvalReport(w, rec1))
      /\ UNCHANGED <<store, served, streaming>>

LookupIncident(w) ==
  LET rec == workers[w]
      existing == check_existing_open_incident(Store, rec.bid, NoFail, "incident_search")
  IN  /\ rec.pc = "lookup"
      /\ IF existing.id # NoIncident
           THEN /\ SetWorker(w, [rec EXCEPT !.pc = "refresh", !.incident = existing.id])
                /\ UNCHANGED nextId
           ELSE /\ nextId <= MaxIncidents
                /\ SetWorker(w, [rec EXCEPT !.pc = "index", !.incident = nextId,
                                   !.doc = NewIncident(nextId, rec.stats, TRUE, now)])
                /\ nextId' = nextId + 1
      /\ UNCHANGED <<now, incidents, reviews, businesses, indexExists, lastOp, served, streaming>>

RefreshMetrics(w) ==
  LET rec == workers[w]
      rec1 == [rec EXCEPT !.pc = "recheck", !.incident = NoIncident]
  IN  /\ rec.pc = "refresh"
      /\ Commit(update_incident_metrics(Store, rec.incident, rec.stats, NoFail))
      /\ IF rec.kind = "stats"
           THEN Finish(w, EvalReport(w, rec))
           ELSE SetWorker(w, rec1) /\ UNCHANGED lastOp
      /\ UNCHANGED <<served, streaming>>

WriteIncident(w) ==
  LET rec == workers[w]
      rec1 == [rec EXCEPT !.pc = "protect", !.isNew = TRUE]
  IN  /\ rec.pc = "index"
      /\ Commit(PutIncident(Store, rec.doc))
      /\ IF rec.kind = "stats"
           THEN Finish(w, EvalReport(w, rec1))
           ELSE SetWorker(w, rec1) /\ UNCHANGED lastOp
      /\ UNCHANGED <<served, streaming>>

RecheckIncident(w) ==
  LET rec == workers[w]
      existing == check_existing_open_incident(Store, rec.bid, NoFail, "incident_search2")
  IN  /\ rec.pc = "recheck"
      /\ IF existing.id = NoIncident
           THEN Finish(w, EvalReport(w, rec))
           ELSE /\ SetWorker(w, [rec EXCEPT !.pc = "protect", !.incident = existing.id])
                /\ UNCHANGED lastOp
      /\ UNCHANGED <<store, served, streaming>>

ProtectCall(w) ==
  LET rec == workers[w]
      p == protect_business(Store, rec.bid, NoFail)
  IN  /\ rec.pc = "protect"
      /\ Commit(p.st)
      /\ SetWorker(w, [rec EXCEPT !.pc = "hold", !.protected = p.ok])
      /\ UNCHANGED <<lastOp, served, streaming>>

HoldCall(w) ==
  LET rec == workers[w]
      h == hold_suspicious_reviews(Store, rec.bid, HoldWindowHours, NoFail)
  IN  /\ rec.pc = "hold"
      /\ Commit(h.st)
      /\ SetWorker(w, [rec EXCEPT !.pc = "record", !.held = h.updated])
      /\ UNCHANGED <<lastOp, served, streaming>>

RecordCall(w) ==
  LET rec == workers[w]
      result == ResponseResult(rec.protected, rec.held)
      rec1 == IF rec.isNew THEN rec
              ELSE [rec EXCEPT !.entry = [@ EXCEPT !.response = <<result>>,
                                                   !.existing_incident_id = rec.incident]]
  IN  /\ rec.pc = "record"
      /\ Commit(RecordActions(Store, rec.incident, result.actions, NoFail))
      /\ Finish(w, EvalReport(w, rec1))
      /\ UNCHANGED <<served, streaming>>

StartStep ==
  \E w \in Workers, k \in {"detect", "stats"}, b \in Businesses, h \in HoursSet :
     StartEval(w, k, b, h)

OverallStep == \E w \in Workers : OverallQuery(w)

RecentStep == \E w \in Workers : RecentQuery(w)

LookupStep == \E w \in Workers : LookupIncident(w)

RefreshStep == \E w \in Workers : RefreshMetrics(w)

WriteStep == \E w \in Workers : WriteIncident(w)

RecheckStep == \E w \in Workers : RecheckIncident(w)

ProtectStep == \E w \in Workers : ProtectCall(w)

HoldStep == \E w \in Workers : HoldCall(w)

RecordStep == \E w \in Workers : RecordCall(w)

NextConc ==
  \/ AttackStep
  \/ ReviewStep
  \/ StartStep
  \/ OverallStep
  \/ RecentStep
  \/ LookupStep
  \/ RefreshStep
  \/ WriteStep
  \/ RecheckStep
  \/ ProtectStep
  \/ HoldStep
  \/ RecordStep

SpecConc == Init /\ [][NextConc]_vars

\* ------------------------------------------------------ overlapping PATCH
\* update_incident, one step per await: the read of the incident and the
\* write of the whole document, with other requests served in between.
update_incident_read(w, id, update, env) ==
  LET g == get_incident(Store, id, env)
  IN  /\ workers[w].pc = "idle"
      /\ Serve
      /\ IF g.http # 200
           THEN /\ lastOp' = [op |-> "patch", http |-> g.http, incident_id |-> id]
                /\ UNCHANGED workers
           ELSE /\ SetWorker(w, [Idle EXCEPT !.pc = "patch_write", !.kind = "patch",
                                             !.incident = id, !.doc = g.incident,
                                             !.update = update])
                /\ UNCHANGED lastOp
      /\ UNCHANGED <<store, streaming>>

update_incident_write(w, env) ==
  LET rec == workers[w]
      id == rec.incident
      doc == ApplyUpdate(rec.doc, rec.update, now)
  IN  /\ rec.pc = "patch_write"
      /\ IF "incident_update" \in env \/ id \notin DOMAIN incidents
           THEN /\ Finish(w, [op |-> "patch", http |-> 500, incident_id |-> id])
                /\ UNCHANGED incidents
           ELSE /\ incidents' = [incidents EXCEPT ![id] = ModelDump(@, doc)]
                /\ Finish(w, [op |-> "patch", http |-> 200, incident_id |-> id])
      /\ UNCHANGED <<now, reviews, businesses, nextId, indexExists, served, streaming>>

PatchReadStep ==
  \E w \in Workers, i \in IncidentIds, u \in PatchInputs :
     update_incident_read(w, i, u, NoFail)

PatchWriteStep == \E w \in Workers : update_incident_write(w, NoFail)

NextPatch ==
  \/ AttackStep
  \/ SweepStep
  \/ ResolveStep
  \/ PatchReadStep
  \/ PatchWriteStep

SpecPatch == Init /\ [][NextPatch]_vars

\* -------------------------------------------------------- review streaming
\* start_streaming and stop_streaming, one step per stretch of code between
\* two awaits, and the background task _streaming_loop, one step per await.
MaxTasks == 3

BatchSizes == {2}

StreamingStatus(op, http, s) ==
  [op |-> op, http |-> http, is_running |-> s.is_running, task |-> s.task,
   target_business_id |-> s.target_business_id,
   reviews_generated |-> s.reviews_generated]

StreamingTask(bid, batch) == [pc |-> "created", cancel |-> FALSE, bid |-> bid, batch |-> batch]

LiveTasks(s) == {t \in DOMAIN s.tasks : s.tasks[t].pc # "done"}

\* Up to the await of the business search.
start_streaming(h, bid, batch) ==
  /\ streaming.handlers[h].pc = "idle"
  /\ Serve
  /\ IF streaming.is_running
       THEN /\ lastOp' = StreamingStatus("stream_start", 400, streaming)
            /\ UNCHANGED streaming
       ELSE /\ streaming' = [streaming EXCEPT !.handlers[h] =
                               [StreamIdle EXCEPT !.pc = "search", !.bid = bid,
                                                  !.batch = batch]]
            /\ UNCHANGED lastOp
  /\ UNCHANGED <<store, workers>>

\* From the return of the business search to the response.
start_streaming_resume(h, searchFails) ==
  LET rec == streaming.handlers[h]
      id == Len(streaming.tasks) + 1
      s1 == [streaming EXCEPT !.is_running = TRUE,
                              !.target_business_id = rec.bid,
                              !.reviews_generated = 0,
                              !.batch_size = rec.batch,
                              !.tasks = Append(@, StreamingTask(rec.bid, rec.batch)),
                              !.task = id,
                              !.handlers[h] = StreamIdle]
  IN  /\ rec.pc = "search"
      /\ IF searchFails
           THEN /\ streaming' = [streaming EXCEPT !.handlers[h] = StreamIdle]
                /\ lastOp' = StreamingStatus("stream_start", 500, streaming)
           ELSE /\ id <= MaxTasks
                /\ streaming' = s1
                /\ lastOp' = StreamingStatus("stream_start", 200, s1)
      /\ UNCHANGED <<store, workers, served>>

\* Up to the await of the cancelled task; awaiting a task that is already
\* done does not suspend the handler.
stop_streaming(h) ==
  LET t == streaming.task
      s0 == [streaming EXCEPT !.is_running = FALSE]
      s1 == [s0 EXCEPT !.task = NoTask]
  IN  /\ streaming.handlers[h].pc = "idle"
      /\ Serve
      /\ IF ~streaming.is_running
           THEN /\ lastOp' = StreamingStatus("stream_stop", 400, streaming)
                /\ UNCHANGED streaming
         ELSE IF t = NoTask
           THEN /\ streaming' = s0
                /\ lastOp' = StreamingStatus("stream_stop", 200, s0)
         ELSE IF streaming.tasks[t].pc = "done"
           THEN /\ streaming' = s1
                /\ lastOp' = StreamingStatus("stream_stop", 200, s1)
         ELSE /\ streaming' = [s0 EXCEPT !.tasks[t].cancel = TRUE,
                                         !.handlers[h] =
                                            [StreamIdle EXCEPT !.pc = "await",
                                                               !.awaiting = t]]
              /\ UNCHANGED lastOp
      /\ UNCHANGED <<store, workers>>

\* From the end of the awaited task to the response.
stop_streaming_resume(h) ==
  LET rec == streaming.handlers[h]
      s1 == [streaming EXCEPT !.task = NoTask, !.handlers[h] = StreamIdle]
  IN  /\ rec.pc = "await"
      /\ streaming.tasks[rec.awaiting].pc = "done"
      /\ streaming' = s1
      /\ lastOp' = StreamingStatus("stream_stop", 200, s1)
      /\ UNCHANGED <<store, workers, served>>

\* The task starts, or wakes from its sleep: a cancellation ends it, else
\* the loop condition is read and the next batch is sent.
streaming_loop_wake(t) ==
  LET task == streaming.tasks[t]
  IN  /\ task.pc \in {"created", "sleep"}
      /\ streaming' = [streaming EXCEPT !.tasks[t].pc =
                          IF task.cancel \/ ~streaming.is_running THEN "done"
                          ELSE "bulk"]
      /\ UNCHANGED <<store, workers, served, lastOp>>

\* The bulk request returns; a cancellation ends the task, whether or not
\* the store had taken the batch.
streaming_loop_bulk(t, applied) ==
  LET task == streaming.tasks[t]
      batch == BagAdd(reviews, Review(task.bid, now, 1, TRUE), task.batch)
  IN  /\ task.pc = "bulk"
      /\ BagSize(reviews) + task.batch <= MaxReviews
      /\ IF task.cancel
           THEN /\ streaming' = [streaming EXCEPT !.tasks[t].pc = "done"]
                /\ reviews' = IF applied THEN batch ELSE reviews
           ELSE /\ applied
                /\ streaming' = [streaming EXCEPT !.tasks[t].pc = "sleep",
                                                  !.reviews_generated = @ + task.batch]
                /\ reviews' = batch
      /\ UNCHANGED <<now, incidents, businesses, nextId, indexExists, workers, served,
                     lastOp>>

StreamStartStep ==
  \E h \in Workers, b \in Businesses, n \in BatchSizes : start_streaming(h, b, n)

StreamStartResumeStep ==
  \E h \in Workers, f \in BOOLEAN : start_streaming_resume(h, f)

StreamStopStep == \E h \in Workers : stop_streaming(h)

StreamStopResumeStep == \E h \in Workers : stop_streaming_resume(h)

StreamWakeStep == \E t \in DOMAIN streaming.tasks : streaming_loop_wake(t)

StreamBulkStep ==
  \E t \in DOMAIN streaming.tasks, a \in BOOLEAN : streaming_loop_bulk(t, a)

NextStream ==
  \/ StreamStartStep
  \/ StreamStartResumeStep
  \/ StreamStopStep
  \/ StreamStopResumeStep
  \/ StreamWakeStep
  \/ StreamBulkStep

SpecStream == Init /\ [][NextStream]_vars

\* ------------------------------------------------------- classifier alone
\* The classification code of the two endpoints and determine_severity,
\* applied to aggregation results and to statistics drawn from values on and
\* around the thresholds (rationals over 1000), independent of any store.
CountValues == {0, 4, 5, 6, 7}

WindowValues == {1, 3, 24}

AverageValues == {<<4, 1>>, <<9, 2>>}

RecentAverageValues == {<<1, 1>>, <<2999, 1000>>, <<3, 1>>, <<7, 2>>, <<5, 1>>}

SuspiciousValues == {0, 3, 4}

AggregateChoices ==
  {[op |-> "aggregates", total |-> rc + extra, avg |-> a, rcount |-> rc,
    ravg |-> IF rc = 0 THEN <<0, 1>> ELSE ra, susp |-> su, hours |-> h] :
     rc \in CountValues, extra \in {0, 10}, a \in AverageValues,
     ra \in RecentAverageValues, su \in SuspiciousValues, h \in WindowValues}

AggregateInputs == {x \in AggregateChoices : x.susp <= x.rcount}

VelocityValues == {0, 2000, 3000, 3004, 3010, 5000, 5004, 5010}

TrendValues == {-3000, -2010, -2004, -2000, -1000, 0, 1000}

SeverityCounts == {0, 4, 5, 10, 11, 20, 21}

StatsOf(rc, tr, v, su) ==
  [business_id |-> "B1", total_reviews |-> rc, average_rating |-> <<0, 100>>,
   recent_review_count |-> rc, recent_average_rating |-> <<0, 100>>,
   rating_trend |-> <<tr, 1000>>, review_velocity |-> <<v, 1000>>,
   suspicious_review_count |-> su, is_under_attack |-> TRUE]

SeverityInputs ==
  {[op |-> "stats_pair", lo |-> StatsOf(rc, tr, v1, su), hi |-> StatsOf(rc, tr, v2, su)] :
     rc \in SeverityCounts, tr \in TrendValues, su \in SuspiciousValues,
     v1 \in VelocityValues, v2 \in VelocityValues}

\* Aggregation results as the two searches return them: counts and star sums
\* of the reviews of one business, older ones and those inside the window.
SumChoices ==
  {[op |-> "sums", total |-> rc + oc, sum_stars |-> rs + os, rcount |-> rc,
    rsum |-> rs, susp |-> su, hours |-> h] :
     rc \in {5, 10}, oc \in {0, 13}, rs \in {10, 13, 20},
     os \in {0, 52, 63, 65}, su \in {0, 4}, h \in {4, 24}}

SumInputs ==
  {x \in SumChoices :
     /\ x.rcount <= x.rsum /\ x.rsum <= 5 * x.rcount
     /\ x.total - x.rcount <= x.sum_stars - x.rsum
     /\ x.sum_stars - x.rsum <= 5 * (x.total - x.rcount)}

InitPure ==
  /\ streaming = StreamingInit
  /\ now = 0
  /\ incidents = <<>>
  /\ reviews = <<>>
  /\ businesses = [b \in Businesses |-> Unprotected]
  /\ nextId = 1
  /\ indexExists = TRUE
  /\ workers = [w \in Workers |-> Idle]
  /\ served = 0
  /\ lastOp \in AggregateInputs \cup SumInputs \cup
                {x \in SeverityInputs : x.lo.review_velocity[1] <= x.hi.review_velocity[1]}

ClassifySnapshot ==
  /\ lastOp.op = "aggregates"
  /\ LET snap == Snapshot(lastOp.total, lastOp.avg, lastOp.rcount, lastOp.ravg,
                          lastOp.susp, lastOp.hours)
     IN  lastOp' = [op |-> "verdict", input |-> lastOp, snap |-> snap,
                    detect |-> DetectIsUnderAttack(snap),
                    stats |-> StatsIsUnderAttack(snap)]
  /\ UNCHANGED <<store, workers, served, streaming>>

ClassifySeverity ==
  /\ lastOp.op = "stats_pair"
  /\ lastOp' = [op |-> "severity", lo |-> lastOp.lo, hi |-> lastOp.hi,
                sevLo |-> determine_severity(lastOp.lo),
                sevHi |-> determine_severity(lastOp.hi)]
  /\ UNCHANGED <<store, workers, served, streaming>>

\* The classification part of one sweep iteration: the snapshot from the
\* aggregation results, the verdict, and the severity of the incident the
\* ledger builds from the statistics record when the verdict is true.
ClassifyCreated ==
  /\ lastOp.op = "sums"
  /\ LET snap == MakeSnapshot([total_reviews |-> lastOp.total,
                               sum_stars |-> lastOp.sum_stars],
                              [review_count |-> lastOp.rcount,
                               sum_stars |-> lastOp.rsum,
                               suspicious_count |-> lastOp.susp], lastOp.hours)
         attack == DetectIsUnderAttack(snap)
         stats == BusinessStats("B1", snap, attack)
     IN  lastOp' = [op |-> "classified", input |-> lastOp, snap |-> snap,
                    stats |-> stats, attack |-> attack,
                    severity |-> IF attack THEN NewIncident(1, stats, TRUE, 0).severity
                                 ELSE None]
  /\ UNCHANGED <<store, workers, served, streaming>>

NextPure ==
  \/ ClassifySnapshot
  \/ ClassifySeverity
  \/ ClassifyCreated

SpecPure == InitPure /\ [][NextPure]_vars

\* ================================================================== claims
\* A step that serves one request whose response is lastOp'.
Served(op) == served' = served + 1 /\ lastOp'.op = op

HasLedger(r) == r.op \in {"detect", "stats"} /\ r.http = 200

LedgerOf(r, b) == {r.ledger[k] : k \in {j \in DOMAIN r.ledger : r.ledger[j].business_id = b}}

NewIds == DOMAIN incidents' \ DOMAIN incidents

\* C4: the attack verdict of detect_attacks and of get_business_stats is true
\* exactly when recent_review_count >= 5 and rating_trend < -1.0 or
\* review_velocity > 2.0 or suspicious_review_count > 3, boundaries as stated,
\* and the two endpoints agree on every snapshot.
C4_VerdictMatchesRule ==
  lastOp.op = "verdict" =>
    LET i == lastOp.input
        gate == i.rcount >= 5
        trend == i.rcount > 0 /\
                 i.ravg[1] * i.avg[2] - i.avg[1] * i.ravg[2] < 0 - i.ravg[2] * i.avg[2]
        velocity == i.rcount > 2 * i.hours
        suspicious == i.susp > 3
        expected == gate /\ (trend \/ velocity \/ suspicious)
    IN  lastOp.detect = expected /\ lastOp.stats = expected

\* Every signal exactly on its boundary with the gate passed: no attack.
C4_Witness ==
  /\ lastOp.op = "verdict"
  /\ lastOp.input.rcount = 6 /\ lastOp.input.hours = 3
  /\ lastOp.input.ravg = <<3, 1>> /\ lastOp.input.avg = <<4, 1>>
  /\ lastOp.input.susp = 3
  /\ ~lastOp.detect

SeverityRule(st) ==
  LET v == st.review_velocity[1]
      tr == st.rating_trend[1]
  IN  IF v > 5000 \/ st.recent_review_count > 20 THEN "critical"
      ELSE IF v > 3000 \/ st.recent_review_count > 10 \/ tr < -2000 THEN "high"
      ELSE IF st.recent_review_count >= 5 \/ st.suspicious_review_count > 3 THEN "medium"
      ELSE "low"

\* C6: determine_severity returns the first matching level in the order
\* CRITICAL, HIGH, MEDIUM, LOW, with the thresholds of the rule, for every
\* statistics record, and always returns one of the four levels.
C6_SeverityPriorityOrder ==
  lastOp.op = "severity" =>
    /\ lastOp.sevLo = SeverityRule(lastOp.lo)
    /\ lastOp.sevHi = SeverityRule(lastOp.hi)
    /\ {lastOp.sevLo, lastOp.sevHi} \subseteq Severities

\* CRITICAL is returned although the HIGH condition holds as well.
C6_Witness ==
  /\ lastOp.op = "severity"
  /\ lastOp.sevLo = "critical"
  /\ lastOp.lo.rating_trend[1] < -2000
  /\ lastOp.lo.recent_review_count = 5
  /\ lastOp.sevHi = "critical"

SeverityRank(sev) ==
  CASE sev = "low" -> 0 [] sev = "medium" -> 1 [] sev = "high" -> 2 [] sev = "critical" -> 3

\* C7: for two statistics records that differ only in review_velocity, the
\* one with the higher velocity has a severity rank that is not lower.
C7_SeverityMonotoneInVelocity ==
  lastOp.op = "severity" =>
    (lastOp.lo.review_velocity[1] <= lastOp.hi.review_velocity[1]
       => SeverityRank(lastOp.sevLo) <= SeverityRank(lastOp.sevHi))

\* A velocity increase alone lifts the severity from MEDIUM to CRITICAL.
C7_Witness ==
  /\ lastOp.op = "severity"
  /\ lastOp.lo.review_velocity[1] < lastOp.hi.review_velocity[1]
  /\ lastOp.sevLo = "medium"
  /\ lastOp.sevHi = "critical"

\* C2: two successive ledger calls for the same attacked business store
\* exactly one incident: a call creates an incident exactly when the business
\* has no open incident, and a call that directly follows a creating call
\* reports the existing incident, stores no new incident of the business and leaves that
\* incident's incident_id, status and detected_at unchanged.
C2_Step(b) ==
  LET first == IF HasLedger(lastOp) THEN LedgerOf(lastOp, b) ELSE {}
      second == LedgerOf(lastOp', b)
  IN  /\ \A e \in second :
           /\ e.result = "new" <=> OpenIncidentsOf(incidents, b) = {}
           /\ e.result = "new" =>
                /\ e.incident \in NewIds
                /\ incidents'[e.incident].business_id = b
                /\ \A i \in NewIds : incidents'[i].business_id = b => i = e.incident
      /\ \A e \in first : \A e2 \in second :
           e.result = "new" =>
             /\ e2.result = "existing"
             /\ e2.incident = NoIncident
             /\ \A i \in NewIds : incidents'[i].business_id # b
             /\ DOMAIN incidents \subseteq DOMAIN incidents'
             /\ e.incident \in DOMAIN incidents
             /\ incidents'[e.incident].incident_id = incidents[e.incident].incident_id
             /\ incidents'[e.incident].status = incidents[e.incident].status
             /\ incidents'[e.incident].detected_at = incidents[e.incident].detected_at

C2_IdempotentRedetection ==
  [][(served' = served + 1 /\ HasLedger(lastOp')) => \A b \in Businesses : C2_Step(b)]_vars

\* The second of two successive calls, made after time has passed: the one
\* incident is the one the first call created.
C2_Witness ==
  /\ served = 3
  /\ HasLedger(lastOp)
  /\ \E b \in Businesses :
       /\ \E e \in LedgerOf(lastOp, b) : e.result = "existing"
       /\ DOMAIN incidents = {1}
       /\ incidents[1].business_id = b
       /\ incidents[1].description = "auto"
       /\ incidents[1].status = "detected"
       /\ incidents[1].detected_at < now

\* C1 (as claimed): two evaluations of one attacked business whose lookup and
\* write steps interleave never leave the business with two open incidents.
C1_AtMostOneOpenUnderOverlap ==
  \A b \in Businesses : Cardinality(OpenIncidentsOf(incidents, b)) <= 1

PreSnapshot(b, hours) ==
  MakeSnapshot(OverallAggs(reviews, b), RecentAggs(reviews, b, hours, now), hours)

ClassifierFired(r, b) ==
  IF r.op = "stats" THEN StatsIsUnderAttack(PreSnapshot(b, r.hours))
  ELSE DetectIsUnderAttack(PreSnapshot(b, r.hours))

OpenCount(incs, b) == Cardinality(OpenIncidentsOf(incs, b))

\* C3 (as claimed): over every sequence of non-overlapping operations, manual
\* POST and PATCH included, an incident is created only when the classifier
\* fired for its business and no open incident existed for it, and no
\* business has more than one open incident.
C3_CreatedOnlyByClassifier ==
  [][/\ \A i \in NewIds :
          /\ HasLedger(lastOp')
          /\ ClassifierFired(lastOp', incidents'[i].business_id)
          /\ OpenIncidentsOf(incidents, incidents'[i].business_id) = {}
     /\ \A b \in Businesses : OpenCount(incidents', b) <= 1]_vars

\* C3 (amended): a detect sweep or a business_stats read creates an incident
\* only when the classifier fired for its business and no open incident
\* existed for it; resolve and delete create none; the number of open
\* incidents of a business grows beyond one only by a manual POST or a PATCH.
C3_LedgerCreatesOnlyOnAttack ==
  [][/\ \A i \in NewIds :
          \/ lastOp'.op = "create_incident"
          \/ /\ HasLedger(lastOp')
             /\ ClassifierFired(lastOp', incidents'[i].business_id)
             /\ OpenIncidentsOf(incidents, incidents'[i].business_id) = {}
     /\ \A b \in Businesses :
          OpenCount(incidents', b) > OpenCount(incidents, b) =>
            \/ lastOp'.op \in {"create_incident", "patch"}
            \/ HasLedger(lastOp') /\ OpenCount(incidents, b) = 0]_vars

\* An incident was mitigated by PATCH and the next detection of the same
\* business re-used it instead of creating a second one.
C3_Witness ==
  /\ HasLedger(lastOp)
  /\ \E b \in Businesses :
       /\ \E e \in LedgerOf(lastOp, b) : e.result = "existing"
       /\ \E i \in DOMAIN incidents :
            /\ incidents[i].business_id = b
            /\ incidents[i].status = "mitigated"
            /\ incidents[i].description = "auto"
       /\ OpenCount(incidents, b) = 1

ResponsesFor(r, b) ==
  {r.detected_attacks[k].response :
     k \in {j \in DOMAIN r.detected_attacks : r.detected_attacks[j].business_id = b}}
  \cup {r.created_incidents[k].response :
     k \in {j \in DOMAIN r.created_incidents : r.created_incidents[j].business_id = b}}

ReviewsOf(revs, b) == {k \in DOMAIN revs : k.business_id = b}

\* C5: a detect sweep leaves a business whose recent review count is below 5
\* out of the detected attacks, creates or updates no incident of it, leaves
\* its protection flag as it was and holds none of its reviews.
C5_BelowGateUntouched ==
  [][(Served("detect") /\ lastOp'.http = 200) =>
       \A b \in Businesses :
          RecentCount(reviews, b, lastOp'.hours, now) < MinRecentReviews =>
            /\ LedgerOf(lastOp', b) = {}
            /\ ResponsesFor(lastOp', b) = {}
            /\ \A k \in DOMAIN lastOp'.detected_attacks :
                  lastOp'.detected_attacks[k].business_id # b
            /\ \A i \in DOMAIN incidents \cup DOMAIN incidents' :
                  (i \in DOMAIN incidents /\ incidents[i].business_id = b) =>
                     i \in DOMAIN incidents' /\ incidents'[i] = incidents[i]
            /\ \A i \in NewIds : incidents'[i].business_id # b
            /\ businesses'[b] = businesses[b]
            /\ ReviewsOf(reviews', b) = ReviewsOf(reviews, b)
            /\ \A k \in ReviewsOf(reviews, b) : reviews'[k] = reviews[k]]_vars

\* A sweep examined a business with four recent reviews, all simulated and
\* low-rated (velocity 4 > 2 and suspicious 4 > 3), and did nothing.
C5_Witness ==
  /\ lastOp.op = "detect" /\ lastOp.http = 200
  /\ lastOp.hours = 1 /\ lastOp.at = now
  /\ \E b \in Businesses :
       /\ lastOp.target \in {b, None}
       /\ RecentCount(reviews, b, 1, now) = 4
       /\ \A k \in ReviewsOf(reviews, b) : k.is_simulated /\ k.stars <= 2 /\ k.status = "published"
       /\ lastOp.businesses_checked = 1
       /\ lastOp.attacks_detected = 0
       /\ ~businesses[b].rating_protected
       /\ \A i \in DOMAIN incidents : incidents[i].business_id # b

\* C8 (as claimed): when the response runs twice against the same business
\* and the same time window with no request in between, the second run holds
\* no review: its held count is 0 and every held review is left as it was.
C8_HeldNeverReheld ==
  [][(/\ Served("detect") /\ lastOp'.http = 200
      /\ lastOp.op = "detect" /\ lastOp.http = 200
      /\ lastOp.at = lastOp'.at) =>
       \A b \in Businesses :
          (ResponsesFor(lastOp, b) # {} /\ ResponsesFor(lastOp', b) # {}) =>
             /\ \A x \in ResponsesFor(lastOp', b) : x[1].reviews_held = 0
             /\ \A k \in ReviewsOf(reviews, b) :
                   k.status = "held" =>
                     k \in DOMAIN reviews' /\ reviews'[k] = reviews[k]]_vars

\* C9 (as claimed): resolving an incident that is already resolved succeeds
\* and leaves resolved_at at the value the first resolve set.
C9_ResolveKeepsResolvedAt ==
  [][(/\ Served("resolve") /\ lastOp'.http = 200
      /\ lastOp'.incident_id \in DOMAIN incidents
      /\ incidents[lastOp'.incident_id].status = "resolved") =>
       incidents'[lastOp'.incident_id].resolved_at
          = incidents[lastOp'.incident_id].resolved_at]_vars

StatusRank(s) ==
  CASE s = "detected" -> 0 [] s = "investigating" -> 1 [] s = "confirmed" -> 2
    [] s = "mitigated" -> 3 [] s = "resolved" -> 4 [] s = "false_positive" -> 4

Terminal(s) == s \in {"resolved", "false_positive"}

\* C10 (as claimed): every incident starts detected, its status never moves
\* backward in the order detected, investigating, confirmed, mitigated,
\* resolved, and a resolved or false_positive incident keeps its status.
C10_StatusNeverMovesBackward ==
  [][/\ \A i \in NewIds : incidents'[i].status = "detected"
     /\ \A i \in DOMAIN incidents \cap DOMAIN incidents' :
          /\ StatusRank(incidents[i].status) <= StatusRank(incidents'[i].status)
          /\ Terminal(incidents[i].status) =>
               incidents'[i].status = incidents[i].status]_vars

\* C10 (amended): every incident starts detected; a detect sweep or a
\* business_stats read never changes the status of a stored incident; resolve
\* changes only its target's status, to resolved; every other status change
\* is a PATCH of that incident, which may set any status, backward or out of
\* a terminal status included.
C10_StatusChangesOnlyByOperator ==
  [][/\ \A i \in NewIds : incidents'[i].status = "detected"
     /\ \A i \in DOMAIN incidents \cap DOMAIN incidents' :
          incidents'[i].status # incidents[i].status =>
            \/ lastOp'.op = "patch" /\ lastOp'.incident_id = i
            \/ /\ lastOp'.op = "resolve" /\ lastOp'.incident_id = i
               /\ incidents'[i].status = "resolved"]_vars

\* A sweep re-detected a business whose incident an operator had moved to
\* mitigated, and the incident is still mitigated.
C10_Witness ==
  /\ lastOp.op = "detect" /\ lastOp.http = 200
  /\ \E i \in DOMAIN incidents :
       /\ incidents[i].status = "mitigated"
       /\ \E k \in DOMAIN lastOp.detected_attacks :
            lastOp.detected_attacks[k].existing_incident_id = i

\* The response results a sweep report holds for business b, with the
\* incident each was recorded against.
ResponseRuns(r, b) ==
  {[incident |-> r.created_incidents[k].incident_id,
    result |-> r.created_incidents[k].response[1], slot |-> <<"created", k>>] :
     k \in {j \in DOMAIN r.created_incidents : r.created_incidents[j].business_id = b}}
  \cup
  {[incident |-> r.detected_attacks[k].existing_incident_id,
    result |-> r.detected_attacks[k].response[1], slot |-> <<"detected", k>>] :
     k \in {j \in DOMAIN r.detected_attacks :
              /\ r.detected_attacks[j].business_id = b
              /\ r.detected_attacks[j].response # <<>>}}

AttackedIn(r) ==
  {r.detected_attacks[k].business_id : k \in DOMAIN r.detected_attacks}

\* C11: in a detect sweep whose store calls succeed, every business verified
\* as under attack gets the response actions exactly once, after a new
\* incident as well as after a reaffirmed one, and the run is recorded on
\* that incident (its response_actions and response_executed_at) and on no
\* other incident of the business.
C11_ResponseOncePerAttack ==
  [][(Served("detect") /\ lastOp'.http = 200) =>
       \A b \in AttackedIn(lastOp') :
          /\ Cardinality(ResponseRuns(lastOp', b)) = 1
          /\ \A x \in ResponseRuns(lastOp', b) :
               /\ x.incident \in DOMAIN incidents'
               /\ incidents'[x.incident].business_id = b
               /\ incidents'[x.incident].response_actions = x.result.actions
               /\ incidents'[x.incident].response_executed_at = now
               /\ \A e \in LedgerOf(lastOp', b) :
                    IF e.result = "new" THEN x.incident = e.incident
                    ELSE x.incident \in OpenIncidentsOf(incidents, b)
               /\ \A j \in DOMAIN incidents \ {x.incident} :
                    incidents[j].business_id = b =>
                      /\ incidents'[j].response_actions = incidents[j].response_actions
                      /\ incidents'[j].response_executed_at
                           = incidents[j].response_executed_at]_vars

\* A later sweep reaffirmed the open incident of a business and ran the
\* response against it again.
C11_Witness ==
  /\ lastOp.op = "detect" /\ lastOp.http = 200 /\ lastOp.at = now
  /\ \E b \in AttackedIn(lastOp) : \E x \in ResponseRuns(lastOp, b) :
       /\ x.slot[1] = "detected"
       /\ x.incident \in DOMAIN incidents
       /\ incidents[x.incident].detected_at < now
       /\ incidents[x.incident].response_executed_at = now
       /\ incidents[x.incident].response_actions = x.result.actions

\* C12 (as claimed): a sweep holds a published review only if it belongs to
\* a business the sweep responded for, is dated within the hold window, has
\* stars <= 2 and is flagged simulated; every other review stays as it is.
C12_HoldOnlySimulated ==
  [][(Served("detect") /\ lastOp'.http = 200) =>
       \A k \in DOMAIN reviews :
          (/\ k.status = "published"
           /\ ~(/\ k.business_id \in AttackedIn(lastOp')
                /\ k.date >= now - HoldWindowHours
                /\ k.stars <= 2
                /\ k.is_simulated)) =>
            k \in DOMAIN reviews' /\ reviews'[k] = reviews[k]]_vars

Candidates(r) ==
  IF r.target # None THEN {r.target}
  ELSE {b \in Businesses : RecentCount(reviews, b, r.hours, now) > 0}

\* C13: a store failure while a detect sweep evaluates one candidate never
\* aborts the sweep: the sweep answers 200, and every candidate whose own
\* store calls succeed is evaluated as if it were alone (it is reported as
\* attacked exactly when the classifier fires for it, and then gets its
\* incident and its response run). Only an untargeted sweep can answer 500,
\* when the candidate search itself fails.
C13_FaultDoesNotAbortSweep ==
  [][Served("detect") =>
       /\ lastOp'.http # 200 => lastOp'.http = 500 /\ lastOp'.target = None
       /\ lastOp'.http = 200 =>
            \A b \in Candidates(lastOp') :
               lastOp'.faults[b] = {} =>
                 /\ b \in AttackedIn(lastOp')
                      <=> DetectIsUnderAttack(PreSnapshot(b, lastOp'.hours))
                 /\ b \in AttackedIn(lastOp') =>
                      /\ Cardinality(ResponseRuns(lastOp', b)) = 1
                      /\ OpenCount(incidents', b) >= 1]_vars

\* The evaluation of the first candidate failed and the sweep went on to
\* create the incident of the second one.
C13_Witness ==
  /\ lastOp.op = "detect" /\ lastOp.http = 200 /\ lastOp.target = None
  /\ \E f, b \in Businesses :
       /\ lastOp.faults[f] # {} /\ lastOp.faults[b] = {}
       /\ KeyOrder(f) < KeyOrder(b)
       /\ RecentCount(reviews, f, lastOp.hours, now) >= RecentCount(reviews, b, lastOp.hours, now)
       /\ RecentCount(reviews, b, lastOp.hours, now) >= MinRecentReviews
       /\ OpenCount(incidents, f) = 0
       /\ OpenCount(incidents, b) = 1
       /\ \E x \in ResponseRuns(lastOp, b) : x.slot[1] = "created"

HoldMatches(b) ==
  CountWhere(reviews, {k \in DOMAIN reviews : HoldQuery(k, b, HoldWindowHours, now)})

ResponseFaults == {"protect", "hold", "actions_update"}

\* C14: the two mitigation actions fail independently and the response never
\* raises: when only protect_business fails the reviews are still held and
\* the held tag is recorded on the incident; when only hold_suspicious_reviews
\* fails the business is still protected and the protection tag is recorded;
\* when the recording on the incident fails both actions are still done and
\* reported. In each case the sweep reports exactly one response result.
C14_Step(b) ==
  LET f == lastOp'.faults[b]
      n == HoldMatches(b)
  IN  (f # {} /\ f \subseteq ResponseFaults
         /\ DetectIsUnderAttack(PreSnapshot(b, lastOp'.hours))) =>
        /\ Cardinality(ResponseRuns(lastOp', b)) = 1
        /\ \A x \in ResponseRuns(lastOp', b) :
             /\ x.incident \in DOMAIN incidents'
             /\ f = {"protect"} =>
                  /\ ~x.result.business_protected
                  /\ businesses'[b] = businesses[b]
                  /\ x.result.reviews_held = n
                  /\ incidents'[x.incident].response_actions
                       = IF n > 0 THEN <<HeldTag(n)>> ELSE <<>>
             /\ f = {"hold"} =>
                  /\ x.result.reviews_held = 0
                  /\ \A k \in ReviewsOf(reviews, b) :
                        k \in DOMAIN reviews' /\ reviews'[k] = reviews[k]
                  /\ x.result.business_protected
                  /\ businesses'[b].rating_protected
                  /\ incidents'[x.incident].response_actions = <<ProtectedTag>>
             /\ f = {"actions_update"} =>
                  /\ x.result.business_protected
                  /\ businesses'[b].rating_protected
                  /\ x.result.reviews_held = n
                  /\ incidents'[x.incident].response_executed_at
                       = IF x.incident \in DOMAIN incidents
                           THEN incidents[x.incident].response_executed_at
                           ELSE NoTime

C14_MitigationsFailIndependently ==
  [][(Served("detect") /\ lastOp'.http = 200) =>
       \A b \in Candidates(lastOp') : C14_Step(b)]_vars

\* The protection write failed, the reviews were held all the same and the
\* held tag is what the incident records.
C14_Witness ==
  /\ lastOp.op = "detect" /\ lastOp.http = 200
  /\ \E b \in AttackedIn(lastOp) : \E x \in ResponseRuns(lastOp, b) :
       /\ lastOp.faults[b] = {"protect"}
       /\ ~x.result.business_protected
       /\ x.result.reviews_held >= MinRecentReviews
       /\ ~businesses[b].rating_protected
       /\ incidents[x.incident].response_actions = <<HeldTag(x.result.reviews_held)>>
       /\ \A k \in ReviewsOf(reviews, b) : k.status = "held"

SnapshotMetrics(r, b) ==
  LET stats == BusinessStats(b, PreSnapshot(b, r.hours), TRUE)
  IN  Metrics(stats.recent_review_count, stats.suspicious_review_count,
              stats.recent_average_rating, RatingDrop(stats), ReviewsPerMinute(stats))

\* C15 (as claimed): when an attack is re-detected on a business with an
\* open incident, every field of the incident's metrics (review_count,
\* unique_attackers, average_rating, rating_drop, reviews_per_minute) is the
\* value of the latest snapshot.
C15_MetricsOverwritten ==
  [][(served' = served + 1 /\ HasLedger(lastOp')) =>
       \A b \in Businesses : \A e \in LedgerOf(lastOp', b) :
          e.result = "existing" =>
            \E i \in OpenIncidentsOf(incidents, b) :
               incidents'[i].metrics = SnapshotMetrics(lastOp', b)]_vars

\* C16 (as claimed): each run of the response actions appends its tags to
\* the incident's response_actions: the tags recorded before the run (the
\* creation-time tag, the tags of earlier sweeps) are still there, in order,
\* followed by the tags of this run.
C16_ResponseActionsAppended ==
  [][(Served("detect") /\ lastOp'.http = 200) =>
       \A b \in AttackedIn(lastOp') : \A x \in ResponseRuns(lastOp', b) :
          LET prior == IF x.incident \in DOMAIN incidents
                         THEN incidents[x.incident].response_actions
                         ELSE <<AutoDetectedTag>>
          IN  incidents'[x.incident].response_actions = prior \o x.result.actions]_vars

\* C17 (as claimed): a protection sets rating_protected and
\* protection_reason on every call and sets protected_since only when the
\* business was not protected before, so a repeated detection leaves
\* protected_since at the time of the first protection.
C17_ProtectedSinceSetOnce ==
  [][(Served("detect") /\ lastOp'.http = 200) =>
       \A b \in AttackedIn(lastOp') : \A x \in ResponseRuns(lastOp', b) :
          x.result.business_protected =>
            /\ businesses'[b].rating_protected
            /\ businesses'[b].protection_reason = "review_fraud_detected"
            /\ businesses'[b].protected_since
                 = IF businesses[b].rating_protected
                     THEN businesses[b].protected_since ELSE now]_vars

\* C18: an incident's detected_at is the time of its creation and no later
\* operation changes it: no re-detection, response run, resolve or PATCH,
\* a PATCH of a resolved or false_positive incident included.
C18_DetectedAtSetOnce ==
  [][/\ \A i \in NewIds : incidents'[i].detected_at = now
     /\ \A i \in DOMAIN incidents \cap DOMAIN incidents' :
          incidents'[i].detected_at = incidents[i].detected_at]_vars

\* An incident was resolved and later re-opened by PATCH; its detected_at is
\* still the earlier time of its creation.
C18_Witness ==
  /\ lastOp.op = "patch" /\ lastOp.http = 200
  /\ lastOp.incident_id \in DOMAIN incidents
  /\ incidents[lastOp.incident_id].status = "detected"
  /\ incidents[lastOp.incident_id].resolved_at # NoTime
  /\ incidents[lastOp.incident_id].detected_at < now

IncidentsOf(incs, b) == {i \in DOMAIN incs : incs[i].business_id = b}

\* C19: check_existing_open_incident finds an incident of a business exactly
\* when one is stored with status detected, investigating, confirmed or
\* mitigated, and what it finds is such an incident; so a detection of a
\* business whose incidents are all resolved or false_positive creates a
\* fresh incident under a new incident_id and leaves the closed ones alone.
C19_Step(b) ==
  LET found == check_existing_open_incident(Store, b, NoFail, "incident_search")
  IN  /\ ~found.raised
      /\ (found.id # NoIncident) <=> (OpenIncidentsOf(incidents, b) # {})
      /\ found.id # NoIncident => found.id \in OpenIncidentsOf(incidents, b)
      /\ (served' = served + 1 /\ HasLedger(lastOp')) =>
           \A e \in LedgerOf(lastOp', b) :
              /\ (e.result = "existing") <=> (found.id # NoIncident)
              /\ (\A j \in IncidentsOf(incidents, b) : Terminal(incidents[j].status)) =>
                   /\ e.result = "new"
                   /\ e.incident \notin DOMAIN incidents
                   /\ incidents'[e.incident].incident_id = e.incident
                   /\ incidents'[e.incident].status = "detected"
                   /\ \A j \in IncidentsOf(incidents, b) : incidents'[j] = incidents[j]

CountsOrdered(stats) ==
  /\ stats.total_reviews >= 0
  /\ stats.recent_review_count >= 0
  /\ stats.recent_review_count <= stats.total_reviews

\* C20 (as claimed): every snapshot computed by detect_attacks or
\* get_business_stats has 0 <= recent_review_count <= total_reviews, also
\* when reviews of the business are inserted between the all-time query and
\* the recent-window query.
C20_RecentWithinTotal ==
  /\ (lastOp.op = "stats" /\ lastOp.http = 200) => CountsOrdered(lastOp.stats)
  /\ \A w \in Workers :
        workers[w].pc \notin {"idle", "overall", "recent"} =>
           CountsOrdered(workers[w].stats)

\* C21 (as claimed): the attack verdict and the severity stored on a newly
\* created incident equal the classification rules applied to the unrounded
\* rating_trend and review_velocity of the snapshot, so a rating_trend
\* strictly between -2.005 and -2.0 counts as rating_trend < -2.0.
C21_ClassifierUsesUnrounded ==
  lastOp.op = "classified" =>
    LET i == lastOp.input
        trendNum == i.rsum * i.total - i.sum_stars * i.rcount
        trendDen == i.rcount * i.total
        gate == i.rcount >= 5
        verdict == gate /\ (trendNum < 0 - trendDen \/ i.rcount > 2 * i.hours
                               \/ i.susp > 3)
        severity ==
          IF i.rcount > 5 * i.hours \/ i.rcount > 20 THEN "critical"
          ELSE IF i.rcount > 3 * i.hours \/ i.rcount > 10 \/ trendNum < 0 - 2 * trendDen
            THEN "high"
          ELSE IF i.rcount >= 5 \/ i.susp > 3 THEN "medium"
          ELSE "low"
    IN  /\ lastOp.attack = verdict
        /\ lastOp.attack => lastOp.severity = severity
\* C22: every incident created through the detect sweep or through
\* business_stats has severity MEDIUM, HIGH or CRITICAL and never LOW, since
\* both create only under the attack verdict (recent_review_count >= 5).
C22_AutoSeverityNeverLow ==
  [][(served' = served + 1 /\ HasLedger(lastOp')) =>
       \A i \in NewIds :
          /\ incidents'[i].severity \in {"medium", "high", "critical"}
          /\ RecentCount(reviews, incidents'[i].business_id, lastOp'.hours, now)
               >= MinRecentReviews]_vars

\* An attack exactly on the gate and under every HIGH threshold (five reviews
\* in a window of three hours) created an incident of severity MEDIUM.
C22_Witness ==
  /\ HasLedger(lastOp) /\ lastOp.hours = 3
  /\ \E b \in Businesses : \E e \in LedgerOf(lastOp, b) :
       /\ e.result = "new"
       /\ e.incident \in DOMAIN incidents
       /\ incidents[e.incident].severity = "medium"
       /\ incidents[e.incident].metrics.review_count = MinRecentReviews
\* The evaluation of business b in the sweep reported by r raised into the
\* sweep's handler: a metrics query failed, or the ledger call raised (the
\* incident lookup or the incident write), or the second lookup raised.
EvaluationRaised(r, b) ==
  \/ /\ b \in Candidates(r)
     /\ r.faults[b] \cap {"business_search", "overall_search", "recent_search"} # {}
  \/ \E e \in LedgerOf(r, b) : e.result = "error"
  \/ /\ "incident_search2" \in r.faults[b]
     /\ \E e \in LedgerOf(r, b) : e.result = "existing"

CreatedFor(r, b) ==
  {k \in DOMAIN r.created_incidents : r.created_incidents[k].business_id = b}

\* C23 (as claimed): a business whose evaluation fails at any step of a
\* detect sweep iteration is excluded from the sweep report: it is neither
\* in detected_attacks nor in created_incidents, and attacks_detected and
\* incidents_created count only the other businesses.
C23_FailedBusinessExcluded ==
  [][(Served("detect") /\ lastOp'.http = 200) =>
       \A b \in Businesses :
          EvaluationRaised(lastOp', b) =>
            /\ b \notin AttackedIn(lastOp')
            /\ CreatedFor(lastOp', b) = {}
            /\ lastOp'.attacks_detected
                 = Cardinality(AttackedIn(lastOp') \ {b})
            /\ lastOp'.incidents_created
                 = Cardinality({k \in DOMAIN lastOp'.created_incidents :
                                  lastOp'.created_incidents[k].business_id # b})]_vars
Fired(r, b) == DetectIsUnderAttack(PreSnapshot(b, r.hours))

\* Business b is the first candidate of the sweep to reach the incident
\* write: every other candidate the classifier fires for comes after it.
FirstWriter(r, b) ==
  /\ b \in Candidates(r)
  /\ Fired(r, b)
  /\ \A c \in Candidates(r) \ {b} :
        Fired(r, c) => BucketBefore(reviews, r.hours, now, b, c)

SweepWentOn(r, b) ==
  \A c \in Candidates(r) \ {b} :
     (r.faults[c] = {} /\ Fired(r, c)) =>
        /\ c \in AttackedIn(r)
        /\ Cardinality(ResponseRuns(r, c)) = 1
        /\ OpenCount(incidents', c) >= 1

\* C24: when the incident write fails because the incidents index does not
\* exist, create_incident_from_attack provisions the index and retries the
\* write once; the new incident is returned (and answered by the response)
\* if the retry succeeds; when the retry fails, or the write fails for any
\* other reason, no incident of that business is stored, nothing is retried
\* further and the sweep goes on with the next business.
C24_Step(b) ==
  LET r == lastOp'
      f == r.faults[b]
      mine == {i \in NewIds : incidents'[i].business_id = b}
  IN  /\ (FirstWriter(r, b) /\ ~indexExists /\ f = {"no_auto_create"}) =>
           /\ indexExists'
           /\ Cardinality(mine) = 1
           /\ \A e \in LedgerOf(r, b) :
                 e.result = "new" /\ e.retried /\ mine = {e.incident}
           /\ LedgerOf(r, b) # {}
           /\ \E x \in ResponseRuns(r, b) : x.incident \in mine
           /\ SweepWentOn(r, b)
      /\ (FirstWriter(r, b) /\ ~indexExists /\ f = {"no_auto_create", "retry_index"}) =>
           /\ indexExists'
           /\ mine = {}
           /\ \A e \in LedgerOf(r, b) : e.result = "error" /\ e.retried
           /\ LedgerOf(r, b) # {}
           /\ ResponseRuns(r, b) = {}
           /\ SweepWentOn(r, b)
      /\ (FirstWriter(r, b) /\ ~indexExists /\ f = {"no_auto_create", "ensure_fail"}) =>
           /\ mine = {}
           /\ \A e \in LedgerOf(r, b) : e.result = "error" /\ e.retried
           /\ LedgerOf(r, b) # {}
           /\ SweepWentOn(r, b)
      /\ (b \in Candidates(r) /\ Fired(r, b) /\ OpenCount(incidents, b) = 0
            /\ f = {"incident_index"}) =>
           /\ mine = {}
           /\ \A e \in LedgerOf(r, b) : e.result = "error" /\ ~e.retried
           /\ LedgerOf(r, b) # {}
           /\ ResponseRuns(r, b) = {}
           /\ SweepWentOn(r, b)

C24_ProvisionAndRetryOnce ==
  [][(Served("detect") /\ lastOp'.http = 200) =>
       \A b \in Businesses : C24_Step(b)]_vars

\* The index did not exist and is not created by a write: the first write
\* failed, the index was provisioned, the retry stored the incident and the
\* response ran against it.
C24_Witness ==
  /\ lastOp.op = "detect" /\ lastOp.http = 200
  /\ \E b \in Businesses : \E e \in LedgerOf(lastOp, b) :
       /\ lastOp.faults[b] = {"no_auto_create"}
       /\ e.result = "new" /\ e.retried
       /\ indexExists
       /\ e.incident \in DOMAIN incidents
       /\ incidents[e.incident].business_id = b
       /\ \E x \in ResponseRuns(lastOp, b) : x.incident = e.incident
DetectedFor(r, b) ==
  {k \in DOMAIN r.detected_attacks : r.detected_attacks[k].business_id = b}

\* C25: in the report of a detect sweep, created_incidents holds exactly the
\* incidents created during the sweep, each once; a business whose open
\* incident was reaffirmed is in detected_attacks with the id of that
\* incident and the result of the re-applied response and is not in
\* created_incidents, while a first detection carries no existing id; and
\* incidents_created <= attacks_detected <= businesses_checked.
C25_ReportDistinguishesReaffirmation ==
  [][(Served("detect") /\ lastOp'.http = 200) =>
       LET r == lastOp'
       IN  /\ {r.created_incidents[k].incident_id : k \in DOMAIN r.created_incidents}
                = NewIds
           /\ Len(r.created_incidents) = Cardinality(NewIds)
           /\ r.incidents_created = Cardinality(NewIds)
           /\ r.attacks_detected = Len(r.detected_attacks)
           /\ r.incidents_created <= r.attacks_detected
           /\ r.attacks_detected <= r.businesses_checked
           /\ \A k \in DOMAIN r.created_incidents :
                 /\ incidents'[r.created_incidents[k].incident_id].business_id
                      = r.created_incidents[k].business_id
                 /\ r.created_incidents[k].business_id \in AttackedIn(r)
           /\ \A b \in AttackedIn(r) :
                 /\ Cardinality(DetectedFor(r, b)) = 1
                 /\ \A k \in DetectedFor(r, b) :
                       IF OpenCount(incidents, b) > 0
                         THEN /\ CreatedFor(r, b) = {}
                              /\ r.detected_attacks[k].existing_incident_id
                                   \in OpenIncidentsOf(incidents, b)
                              /\ r.detected_attacks[k].response # <<>>
                              /\ r.detected_attacks[k].response[1].actions
                                   = incidents'[r.detected_attacks[k].existing_incident_id]
                                       .response_actions
                         ELSE /\ Cardinality(CreatedFor(r, b)) = 1
                              /\ r.detected_attacks[k].existing_incident_id = NoIncident
                              /\ r.detected_attacks[k].response = <<>>]_vars

\* One sweep reaffirmed the open incident of one business and created the
\* first incident of another: two attacks detected, one incident created.
C25_Witness ==
  /\ lastOp.op = "detect" /\ lastOp.http = 200
  /\ lastOp.attacks_detected = 2
  /\ lastOp.incidents_created = 1
  /\ \E k \in DOMAIN lastOp.detected_attacks :
       /\ lastOp.detected_attacks[k].existing_incident_id \in DOMAIN incidents
       /\ lastOp.detected_attacks[k].response # <<>>
       /\ lastOp.detected_attacks[k].business_id
            # lastOp.created_incidents[1].business_id
EarliestDetectedAt(incs, b) ==
  MinOf({incs[i].detected_at : i \in OpenIncidentsOf(incs, b)})

\* C26 (as claimed): when a business has two or more open incidents, a
\* re-detection refreshes the metrics of the open incident with the earliest
\* detected_at and records the response actions against it, and leaves the
\* other open incidents of the business untouched.
C26_EarliestIsCanonical ==
  [][(Served("detect") /\ lastOp'.http = 200) =>
       \A b \in AttackedIn(lastOp') :
          OpenCount(incidents, b) >= 2 =>
            /\ \A x \in ResponseRuns(lastOp', b) :
                  /\ x.incident \in OpenIncidentsOf(incidents, b)
                  /\ incidents[x.incident].detected_at = EarliestDetectedAt(incidents, b)
            /\ \A j \in OpenIncidentsOf(incidents, b) :
                  incidents[j].detected_at > EarliestDetectedAt(incidents, b) =>
                    incidents'[j] = incidents[j]]_vars
\* C27 (as claimed): at any time at most one background streaming task
\* exists, a start request issued while streaming is running is rejected
\* and leaves the streaming state and the running task as they are, also
\* when two start requests are processed concurrently, and after stop
\* returns is_running is false and no task handle remains.
C27_SingleStreamingTask ==
  /\ Cardinality(LiveTasks(streaming)) <= 1
  /\ (lastOp.op = "stream_stop" /\ lastOp.http = 200) =>
        ~lastOp.is_running /\ lastOp.task = NoTask
\* The step is the write of a PATCH by worker w.
PatchWrites(w) ==
  /\ workers[w].pc = "patch_write"
  /\ workers'[w].pc = "idle"
  /\ lastOp'.op = "patch" /\ lastOp'.http = 200

\* C28 (as claimed): the write of a PATCH changes only the fields named in
\* the request (and resolved_at when the new status is resolved); every
\* other stored field keeps the value it has at the time of the write, so
\* metrics, response_actions and status written by a detection sweep or a
\* resolve between the PATCH's read and its write are not reverted.
C28_PatchKeepsConcurrentWrites ==
  [][\A w \in Workers :
       PatchWrites(w) =>
         LET i == workers[w].incident
             u == workers[w].update
         IN  /\ incidents'[i].metrics = incidents[i].metrics
             /\ u.response_actions = <<>> =>
                   incidents'[i].response_actions = incidents[i].response_actions
             /\ u.status = None =>
                   /\ incidents'[i].status = incidents[i].status
                   /\ incidents'[i].resolved_at = incidents[i].resolved_at
             /\ incidents'[i].resolution = incidents[i].resolution
             /\ u.severity = None => incidents'[i].severity = incidents[i].severity
             /\ u.description = None =>
                   incidents'[i].description = incidents[i].description
             /\ incidents'[i].detected_at = incidents[i].detected_at]_vars
Publish(k) == [k EXCEPT !.status = "published", !.held_at = NoTime]

\* The review store with every hold undone.
Unheld(revs) ==
  [k2 \in {Publish(k) : k \in DOMAIN revs} |->
     SumFn([k \in {x \in DOMAIN revs : Publish(x) = k2} |-> revs[k]])]

SnapshotOf(revs, b, hours) ==
  MakeSnapshot(OverallAggs(revs, b), RecentAggs(revs, b, hours, now), hours)

C30_SeverityFixedAtCreation ==
  [][\A i \in DOMAIN incidents \cap DOMAIN incidents' :
       incidents'[i].severity # incidents[i].severity =>
         /\ lastOp'.op = "patch"
         /\ lastOp'.incident_id = i]_vars

\* An incident classified HIGH at creation was reaffirmed by a sweep whose
\* snapshot classifies to MEDIUM, and is still HIGH.
C30_Witness ==
  /\ lastOp.op = "detect" /\ lastOp.http = 200 /\ lastOp.at = now
  /\ \E b \in AttackedIn(lastOp) : \E x \in ResponseRuns(lastOp, b) :
       /\ x.slot[1] = "detected"
       /\ x.incident \in DOMAIN incidents
       /\ incidents[x.incident].description = "auto"
       /\ incidents[x.incident].severity = "high"
       /\ determine_severity(BusinessStats(b, SnapshotOf(reviews, b, lastOp.hours), TRUE))
            = "medium"
====
